---- MODULE Spec2Model ----
(***************************************************************************)
(* State-machine model of the TriviaChain contract (src/src/lib.rs).       *)
(*                                                                         *)
(* Storage is the contract's storage: every mapping slot reads as zero     *)
(* until it is written.  Every public function is one action; a call that  *)
(* returns Err reverts, so it leaves storage as it was and only its result *)
(* is recorded in `last`.  Addresses, hashes and room codes are small      *)
(* naturals, 0 being the zero address / zero bytes.  U256 arithmetic never *)
(* comes near 2^256 within the bounds, so values are plain naturals.       *)
(***************************************************************************)
EXTENDS Integers, Sequences, FiniteSets, TLC

\* ---------------------------------------------------------------- bounds
NumAccounts == 3
MaxSessions == 2
MaxQuestionIndex == 1
\* the clock: block_timestamp runs from StartTime to MaxTime in steps of TickStep
StartTime == 1
TickStep == 5
MaxTime == 11

Accounts == 1..NumAccounts
SessionIds == 0..(MaxSessions - 1)
QuestionIdx == 0..MaxQuestionIndex
\* inputs of create_session
RoomCodes == {1}
Durations == {0, 10}
\* inputs of join_session: the session's code, and the zero bytes
JoinCodes == {0, 1}
\* inputs of start_question: Easy, Medium, Hard, and a value that is none of them
Difficulties == {0, 1, 2, 3}
CorrectHashes == {1}
\* inputs of submit_answer: 1 is the correct hash, 2 a wrong one
AnswerHashes == {1, 2}

\* ---------------------------------------------------------------- state
VARIABLES
    sessions,               \* mapping(uint256 => GameSession)
    player_stats,           \* mapping(address => PlayerStats)
    next_session_id,        \* uint256
    active_sessions_count,  \* uint256
    owner,                  \* address
    now,                    \* block_timestamp of the next call
    last                    \* the last call and what it returned

vars == <<sessions, player_stats, next_session_id, active_sessions_count,
          owner, now, last>>

storage == <<sessions, player_stats, next_session_id, active_sessions_count, owner>>

STATUS_CREATED == 0
STATUS_ACTIVE == 1
STATUS_COMPLETED == 2
STATUS_CANCELLED == 3

ZeroPlayer ==
    [player_address |-> 0, display_name |-> 0, score |-> 0,
     current_streak |-> 0, best_streak |-> 0, correct_answers |-> 0,
     total_response_time |-> 0, is_active |-> FALSE, join_time |-> 0]

ZeroStats ==
    [games_played |-> 0, total_wins |-> 0, total_score |-> 0,
     best_score |-> 0, total_correct_answers |-> 0, longest_streak |-> 0]

ZeroQuestion ==
    [question_hash |-> 0, question_type |-> 0, difficulty |-> 0,
     time_limit |-> 0, correct_answer_hash |-> 0]

ZeroAnswer ==
    [answer_hash |-> 0, submit_time |-> 0, is_correct |-> FALSE,
     points_earned |-> 0]

ZeroSession ==
    [session_id |-> 0, host |-> 0, room_code |-> 0, status |-> 0,
     start_time |-> 0, end_time |-> 0, current_question_index |-> 0,
     question_start_time |-> 0, question_duration |-> 0,
     players |-> [a \in Accounts |-> ZeroPlayer],
     player_list |-> <<>>, player_count |-> 0, max_players |-> 0,
     winner |-> 0,
     questions |-> [q \in QuestionIdx |-> ZeroQuestion],
     answers |-> [q \in QuestionIdx |-> [a \in Accounts |-> ZeroAnswer]]]

NoBoard == <<>>

Result(op, caller, sid, qi, err, ret, board) ==
    [op |-> op, caller |-> caller, sid |-> sid, qi |-> qi, err |-> err,
     ret |-> ret, board |-> board]

Init ==
    /\ sessions = [s \in SessionIds |-> ZeroSession]
    /\ player_stats = [a \in Accounts |-> ZeroStats]
    /\ next_session_id = 0
    /\ active_sessions_count = 0
    /\ owner = 0
    /\ now = StartTime
    /\ last = Result("none", 0, 0, 0, "Ok", 0, NoBoard)

\* ------------------------------------------------------------ initialize
InitializeErr ==
    IF owner # 0 THEN "Unauthorized" ELSE "Ok"

Initialize(caller) ==
    LET err == InitializeErr IN
    /\ IF err = "Ok"
       THEN /\ owner' = caller
            /\ next_session_id' = 1
       ELSE UNCHANGED <<owner, next_session_id>>
    /\ last' = Result("initialize", caller, 0, 0, err, 0, NoBoard)
    /\ UNCHANGED <<sessions, player_stats, active_sessions_count, now>>

\* -------------------------------------------------------- create_session
CreateSessionApply(s, session_id, caller, room_code, max_players, question_duration) ==
    [s EXCEPT !.session_id = session_id,
              !.host = caller,
              !.room_code = room_code,
              !.status = STATUS_CREATED,
              !.max_players = max_players,
              !.question_duration = question_duration,
              !.player_count = 0,
              !.current_question_index = 0]

CreateSession(caller, room_code, max_players, question_duration) ==
    LET session_id == next_session_id IN
    /\ session_id \in SessionIds
    /\ sessions' = [sessions EXCEPT ![session_id] =
                       CreateSessionApply(@, session_id, caller, room_code,
                                          max_players, question_duration)]
    /\ next_session_id' = session_id + 1
    /\ active_sessions_count' = active_sessions_count + 1
    /\ last' = Result("createSession", caller, session_id, 0, "Ok", session_id, NoBoard)
    /\ UNCHANGED <<player_stats, owner, now>>

\* ---------------------------------------------------------- join_session
\* mutant: the capacity check lets one player too many in
JoinSessionErr_OffByOne(s, caller, room_code) ==
    IF s.room_code # room_code THEN "InvalidRoomCode"
    ELSE IF s.status # STATUS_CREATED THEN "SessionAlreadyActive"
    ELSE IF s.player_count > s.max_players THEN "SessionFull"
    ELSE IF s.players[caller].is_active THEN "PlayerAlreadyJoined"
    ELSE "Ok"

JoinSessionErr(s, caller, room_code) ==
    IF s.room_code # room_code THEN "InvalidRoomCode"
    ELSE IF s.status # STATUS_CREATED THEN "SessionAlreadyActive"
    ELSE IF s.player_count >= s.max_players THEN "SessionFull"
    ELSE IF s.players[caller].is_active THEN "PlayerAlreadyJoined"
    ELSE "Ok"

JoinSessionApply(s, caller, display_name, timestamp) ==
    [s EXCEPT !.players[caller] =
                  [@ EXCEPT !.player_address = caller,
                            !.display_name = display_name,
                            !.score = 0,
                            !.current_streak = 0,
                            !.best_streak = 0,
                            !.correct_answers = 0,
                            !.total_response_time = 0,
                            !.is_active = TRUE,
                            !.join_time = timestamp],
              !.player_list = Append(@, caller),
              !.player_count = s.player_count + 1]

JoinSession(caller, sid, room_code, display_name) ==
    LET err == JoinSessionErr(sessions[sid], caller, room_code) IN
    /\ sessions' = IF err = "Ok"
                   THEN [sessions EXCEPT ![sid] =
                            JoinSessionApply(@, caller, display_name, now)]
                   ELSE sessions
    /\ last' = Result("joinSession", caller, sid, 0, err, 0, NoBoard)
    /\ UNCHANGED <<player_stats, next_session_id, active_sessions_count, owner, now>>

\* --------------------------------------------------------- start_session
StartSessionErr(s, caller) ==
    IF s.host # caller THEN "Unauthorized"
    ELSE IF s.status # STATUS_CREATED THEN "SessionAlreadyActive"
    ELSE "Ok"

StartSessionApply(s, timestamp) ==
    [s EXCEPT !.status = STATUS_ACTIVE, !.start_time = timestamp]

StartSession(caller, sid) ==
    LET err == StartSessionErr(sessions[sid], caller) IN
    /\ sessions' = IF err = "Ok"
                   THEN [sessions EXCEPT ![sid] = StartSessionApply(@, now)]
                   ELSE sessions
    /\ last' = Result("startSession", caller, sid, 0, err, 0, NoBoard)
    /\ UNCHANGED <<player_stats, next_session_id, active_sessions_count, owner, now>>

\* -------------------------------------------------------- start_question
\* mutant: the host check is missing
StartQuestionErr_NoHostCheck(s, caller) ==
    IF s.status # STATUS_ACTIVE THEN "SessionNotActive"
    ELSE "Ok"

StartQuestionErr(s, caller) ==
    IF s.host # caller THEN "Unauthorized"
    ELSE IF s.status # STATUS_ACTIVE THEN "SessionNotActive"
    ELSE "Ok"

StartQuestionApply(s, question_index, question_hash, question_type, difficulty, correct_answer_hash, timestamp) ==
    [s EXCEPT !.questions[question_index] =
                  [question_hash |-> question_hash,
                   question_type |-> question_type,
                   difficulty |-> difficulty,
                   time_limit |-> s.question_duration,
                   correct_answer_hash |-> correct_answer_hash],
              !.current_question_index = question_index,
              !.question_start_time = timestamp]

StartQuestion(caller, sid, question_index, question_hash, question_type, difficulty, correct_answer_hash) ==
    LET err == StartQuestionErr(sessions[sid], caller) IN
    /\ sessions' = IF err = "Ok"
                   THEN [sessions EXCEPT ![sid] =
                            StartQuestionApply(@, question_index, question_hash,
                                               question_type, difficulty,
                                               correct_answer_hash, now)]
                   ELSE sessions
    /\ last' = Result("startQuestion", caller, sid, question_index, err, 0, NoBoard)
    /\ UNCHANGED <<player_stats, next_session_id, active_sessions_count, owner, now>>

\* --------------------------------------------------------- submit_answer
\* mutant: the check for an earlier answer is missing
SubmitAnswerErr_NoRepeatCheck(s, caller, question_index, current_time) ==
    IF s.status # STATUS_ACTIVE THEN "SessionNotActive"
    ELSE IF s.current_question_index # question_index THEN "InvalidQuestionIndex"
    ELSE IF ~s.players[caller].is_active THEN "PlayerNotInSession"
    ELSE IF current_time > s.question_start_time + s.question_duration
         THEN "QuestionNotActive"
    ELSE "Ok"

\* mutant: the answer window closes one second early
SubmitAnswerErr_ExpiryInclusive(s, caller, question_index, current_time) ==
    IF s.status # STATUS_ACTIVE THEN "SessionNotActive"
    ELSE IF s.current_question_index # question_index THEN "InvalidQuestionIndex"
    ELSE IF ~s.players[caller].is_active THEN "PlayerNotInSession"
    ELSE IF s.answers[question_index][caller].submit_time # 0 THEN "AlreadyAnswered"
    ELSE IF current_time >= s.question_start_time + s.question_duration
         THEN "QuestionNotActive"
    ELSE "Ok"

SubmitAnswerErr(s, caller, question_index, current_time) ==
    IF s.status # STATUS_ACTIVE THEN "SessionNotActive"
    ELSE IF s.current_question_index # question_index THEN "InvalidQuestionIndex"
    ELSE IF ~s.players[caller].is_active THEN "PlayerNotInSession"
    ELSE IF s.answers[question_index][caller].submit_time # 0 THEN "AlreadyAnswered"
    ELSE IF current_time > s.question_start_time + s.question_duration
         THEN "QuestionNotActive"
    ELSE "Ok"

\* mutant: the division is evaluated whatever the response time
TimeBonusDivides_Unguarded(response_time, time_limit) == TRUE

\* whether the division by time_limit is evaluated
TimeBonusDivides(response_time, time_limit) == response_time < time_limit

TimeBonus(response_time, time_limit) ==
    IF TimeBonusDivides(response_time, time_limit)
    THEN ((time_limit - response_time) * 50) \div time_limit
    ELSE 0

\* The outcome of a call: the error of the checks, or, when they pass, "Panic"
\* if the time bonus divides by zero (U256 division panics and the call
\* reverts), or "Ok".
SubmitAnswerOutcome(s, caller, question_index, current_time) ==
    LET err == SubmitAnswerErr(s, caller, question_index, current_time) IN
    IF err # "Ok" THEN err
    ELSE IF /\ TimeBonusDivides(current_time - s.question_start_time, s.question_duration)
            /\ s.question_duration = 0
         THEN "Panic"
    ELSE "Ok"

BasePoints(is_correct) ==
    IF is_correct THEN 100 ELSE 0

\* mutant: Hard questions are paid as Medium ones
DifficultyMultiplier_HardAsMedium(difficulty) ==
    IF difficulty = 0 THEN 100
    ELSE IF difficulty = 1 THEN 150
    ELSE IF difficulty = 2 THEN 150
    ELSE 100

DifficultyMultiplier(difficulty) ==
    IF difficulty = 0 THEN 100
    ELSE IF difficulty = 1 THEN 150
    ELSE IF difficulty = 2 THEN 200
    ELSE 100

\* mutant: a correct answer starts the streak over at 1
NewStreak_Restart(is_correct, current_streak) ==
    IF is_correct THEN 1 ELSE 0

NewStreak(is_correct, current_streak) ==
    IF is_correct THEN current_streak + 1 ELSE 0

\* mutant: the streak bonus is paid from the first correct answer on
StreakBonus_FromFirst(is_correct, new_streak) ==
    IF is_correct /\ new_streak >= 1 THEN new_streak * 10 ELSE 0

StreakBonus(is_correct, new_streak) ==
    IF is_correct /\ new_streak >= 2 THEN new_streak * 10 ELSE 0

CalcPoints(is_correct, response_time, time_limit, difficulty, current_streak) ==
    ((BasePoints(is_correct) + TimeBonus(response_time, time_limit))
        * DifficultyMultiplier(difficulty)) \div 100
    + StreakBonus(is_correct, NewStreak(is_correct, current_streak))

SubmitIsCorrect(s, question_index, answer_hash) ==
    answer_hash = s.questions[question_index].correct_answer_hash

SubmitPoints(s, caller, question_index, answer_hash, current_time) ==
    CalcPoints(SubmitIsCorrect(s, question_index, answer_hash),
               current_time - s.question_start_time,
               s.question_duration,
               s.questions[question_index].difficulty,
               s.players[caller].current_streak)

SubmitAnswerApply(s, caller, question_index, answer_hash, current_time) ==
    LET p == s.players[caller]
        is_correct == SubmitIsCorrect(s, question_index, answer_hash)
        response_time == current_time - s.question_start_time
        points == SubmitPoints(s, caller, question_index, answer_hash, current_time)
        new_streak == NewStreak(is_correct, p.current_streak)
    IN
    [s EXCEPT !.players[caller] =
                  [@ EXCEPT !.current_streak = IF is_correct THEN new_streak ELSE 0,
                            !.best_streak = IF is_correct /\ new_streak > p.best_streak
                                            THEN new_streak ELSE @,
                            !.correct_answers = IF is_correct THEN @ + 1 ELSE @,
                            !.score = p.score + points,
                            !.total_response_time = @ + response_time],
              !.answers[question_index][caller] =
                  [answer_hash |-> answer_hash,
                   submit_time |-> current_time,
                   is_correct |-> is_correct,
                   points_earned |-> points]]

\* mutant: the points of an answer are added to the account's total_score at once
SubmitAnswer_CountsStats(caller, sid, question_index, answer_hash) ==
    LET s == sessions[sid]
        err == SubmitAnswerOutcome(s, caller, question_index, now)
        points == SubmitPoints(s, caller, question_index, answer_hash, now)
    IN
    /\ sessions' = IF err = "Ok"
                   THEN [sessions EXCEPT ![sid] =
                            SubmitAnswerApply(@, caller, question_index, answer_hash, now)]
                   ELSE sessions
    /\ player_stats' = IF err = "Ok"
                       THEN [player_stats EXCEPT ![caller].total_score = @ + points]
                       ELSE player_stats
    /\ last' = Result("submitAnswer", caller, sid, question_index, err,
                      IF err = "Ok" THEN points ELSE 0, NoBoard)
    /\ UNCHANGED <<next_session_id, active_sessions_count, owner, now>>

SubmitAnswer(caller, sid, question_index, answer_hash) ==
    LET s == sessions[sid]
        err == SubmitAnswerOutcome(s, caller, question_index, now)
    IN
    /\ sessions' = IF err = "Ok"
                   THEN [sessions EXCEPT ![sid] =
                            SubmitAnswerApply(@, caller, question_index, answer_hash, now)]
                   ELSE sessions
    /\ last' = Result("submitAnswer", caller, sid, question_index, err,
                      IF err = "Ok"
                      THEN SubmitPoints(s, caller, question_index, answer_hash, now)
                      ELSE 0,
                      NoBoard)
    /\ UNCHANGED <<player_stats, next_session_id, active_sessions_count, owner, now>>

\* ----------------------------------------------------------- end_session
EndSessionErr(s, caller) ==
    IF s.host # caller THEN "Unauthorized"
    ELSE IF s.status # STATUS_ACTIVE THEN "SessionNotActive"
    ELSE "Ok"

\* mutant: on a tie the later player takes the lead
RECURSIVE FindWinner_LastOfTies(_, _)
FindWinner_LastOfTies(s, i) ==
    IF i = 0 THEN <<0, 0>>
    ELSE LET prev == FindWinner_LastOfTies(s, i - 1)
             player_address == s.player_list[i]
             player_score == s.players[player_address].score
         IN IF player_score >= prev[1]
            THEN <<player_score, player_address>>
            ELSE prev

\* the loop of lines 421-434 after its first i iterations: <<highest_score, winner_address>>
RECURSIVE FindWinner(_, _)
FindWinner(s, i) ==
    IF i = 0 THEN <<0, 0>>
    ELSE LET prev == FindWinner(s, i - 1)
             player_address == s.player_list[i]
             player_score == s.players[player_address].score
         IN IF player_score > prev[1]
            THEN <<player_score, player_address>>
            ELSE prev

WinnerOf(s) == FindWinner(s, Len(s.player_list))[2]

EndSessionApply(s, timestamp) ==
    [s EXCEPT !.status = STATUS_COMPLETED,
              !.end_time = timestamp,
              !.winner = WinnerOf(s)]

UpdateWinnerStats(stats, winner_address) ==
    IF winner_address # 0
    THEN [stats EXCEPT ![winner_address].total_wins = @ + 1]
    ELSE stats

UpdateOneStats(st, p) ==
    [st EXCEPT !.games_played = @ + 1,
               !.total_score = @ + p.score,
               !.best_score = IF p.score > @ THEN p.score ELSE @,
               !.total_correct_answers = @ + p.correct_answers,
               !.longest_streak = IF p.best_streak > @ THEN p.best_streak ELSE @]

\* the loop of lines 450-473 after its first i iterations
RECURSIVE UpdateAllStats(_, _, _)
UpdateAllStats(stats, s, i) ==
    IF i = 0 THEN stats
    ELSE LET prev == UpdateAllStats(stats, s, i - 1)
             player_address == s.player_list[i]
         IN [prev EXCEPT ![player_address] =
                UpdateOneStats(@, s.players[player_address])]

EndSessionStats(stats, s) ==
    UpdateAllStats(UpdateWinnerStats(stats, WinnerOf(s)), s, Len(s.player_list))

\* mutant: the statistics are rolled up before the status check, so a second
\* endSession by the host fails with SessionNotActive after counting the game again
EndSession_StatsFirst(caller, sid) ==
    LET s == sessions[sid]
        err == EndSessionErr(s, caller)
    IN
    /\ IF err = "Ok"
       THEN /\ sessions' = [sessions EXCEPT ![sid] = EndSessionApply(@, now)]
            /\ player_stats' = EndSessionStats(player_stats, s)
            /\ active_sessions_count' = active_sessions_count - 1
       ELSE /\ player_stats' = IF s.host = caller
                               THEN EndSessionStats(player_stats, s)
                               ELSE player_stats
            /\ UNCHANGED <<sessions, active_sessions_count>>
    /\ last' = Result("endSession", caller, sid, 0, err,
                      IF err = "Ok" THEN WinnerOf(s) ELSE 0, NoBoard)
    /\ UNCHANGED <<next_session_id, owner, now>>

EndSession(caller, sid) ==
    LET s == sessions[sid]
        err == EndSessionErr(s, caller)
    IN
    /\ IF err = "Ok"
       THEN /\ sessions' = [sessions EXCEPT ![sid] = EndSessionApply(@, now)]
            /\ player_stats' = EndSessionStats(player_stats, s)
            /\ active_sessions_count' = active_sessions_count - 1
       ELSE UNCHANGED <<sessions, player_stats, active_sessions_count>>
    /\ last' = Result("endSession", caller, sid, 0, err,
                      IF err = "Ok" THEN WinnerOf(s) ELSE 0, NoBoard)
    /\ UNCHANGED <<next_session_id, owner, now>>

\* ------------------------------------------------------- get_leaderboard
\* Vec::sort_by is a stable sort; the comparator orders by score, descending.
\* Stable insertion: x goes after every entry whose score is >= its own.
\* mutant: an unstable sort, equal scores come out in reverse join order
RECURSIVE InsertByScore_Unstable(_, _)
InsertByScore_Unstable(sorted, x) ==
    IF sorted = <<>> THEN <<x>>
    ELSE IF x[2] >= Head(sorted)[2] THEN <<x>> \o sorted
    ELSE <<Head(sorted)>> \o InsertByScore_Unstable(Tail(sorted), x)

RECURSIVE InsertByScore(_, _)
InsertByScore(sorted, x) ==
    IF sorted = <<>> THEN <<x>>
    ELSE IF x[2] > Head(sorted)[2] THEN <<x>> \o sorted
    ELSE <<Head(sorted)>> \o InsertByScore(Tail(sorted), x)

RECURSIVE SortByScore(_, _)
SortByScore(board, i) ==
    IF i = 0 THEN <<>>
    ELSE InsertByScore(SortByScore(board, i - 1), board[i])

LeaderboardEntries(s) ==
    [i \in 1..Len(s.player_list) |->
        <<s.player_list[i], s.players[s.player_list[i]].score>>]

Leaderboard(s) ==
    SortByScore(LeaderboardEntries(s), Len(s.player_list))

GetLeaderboard(caller, sid) ==
    /\ last' = Result("getLeaderboard", caller, sid, 0, "Ok", 0, Leaderboard(sessions[sid]))
    /\ UNCHANGED <<sessions, player_stats, next_session_id, active_sessions_count,
                   owner, now>>

\* ------------------------------------------------------------ the clock
\* block_timestamp is non-decreasing from one call to the next
Tick ==
    /\ now + TickStep <= MaxTime
    /\ now' = now + TickStep
    /\ last' = Result("tick", 0, 0, 0, "Ok", 0, NoBoard)
    /\ UNCHANGED <<sessions, player_stats, next_session_id, active_sessions_count, owner>>

\* the next call is made `seconds` later, no later than `until`
Advance(seconds, until) ==
    /\ now + seconds <= until
    /\ now' = now + seconds
    /\ last' = Result("tick", 0, 0, 0, "Ok", 0, NoBoard)
    /\ UNCHANGED <<sessions, player_stats, next_session_id, active_sessions_count, owner>>

\* One call of the contract, with its inputs drawn from the given sets.
Calls(Callers, Creators, MPs, Durs, Sids, Codes, QIs, Diffs, Hashes) ==
    \/ \E c \in Callers : Initialize(c)
    \/ \E c \in Creators, rc \in RoomCodes, mp \in MPs, qd \in Durs :
          CreateSession(c, rc, mp, qd)
    \/ \E c \in Callers, sid \in Sids, rc \in Codes : JoinSession(c, sid, rc, 1)
    \/ \E c \in Callers, sid \in Sids : StartSession(c, sid)
    \/ \E c \in Callers, sid \in Sids, qi \in QIs, d \in Diffs, h \in CorrectHashes :
          StartQuestion(c, sid, qi, 1, 0, d, h)
    \/ \E c \in Callers, sid \in Sids, qi \in QIs, h \in Hashes :
          SubmitAnswer(c, sid, qi, h)
    \/ \E c \in Callers, sid \in Sids : EndSession(c, sid)
    \/ \E c \in Callers, sid \in Sids : GetLeaderboard(c, sid)

\* The whole life of a session, all calls in one block: accounts 1 and 2 call
\* every function on session 1 (account 1 creates the sessions, so it is the
\* host); session 0 is only created.  The one question is Easy and every
\* answer given is the correct one.
Next ==
    Calls({1, 2}, {1}, {1, 2}, {10}, {1}, JoinCodes, {0}, {0}, {1})

Spec == Init /\ [][Next]_vars

\* The session that createSession(room code 1, max_players, duration qd) by
\* account 1 makes under id 1, after the accounts of `order` joined it in that
\* order and account 1 started it, all at StartTime.
RECURSIVE JoinAll(_, _, _)
JoinAll(s, order, i) ==
    IF i = 0 THEN s
    ELSE JoinSessionApply(JoinAll(s, order, i - 1), order[i], 1, StartTime)

OpenGame(max_players, qd, order) ==
    StartSessionApply(
        JoinAll(CreateSessionApply(ZeroSession, 1, 1, 1, max_players, qd),
                order, Len(order)),
        StartTime)

\* The state after initialize by account 1 and the calls of OpenGame.
GameInProgress(max_players, qd, order) ==
    /\ sessions = [s \in SessionIds |->
                      IF s = 1 THEN OpenGame(max_players, qd, order) ELSE ZeroSession]
    /\ player_stats = [a \in Accounts |-> ZeroStats]
    /\ next_session_id = 2
    /\ active_sessions_count = 1
    /\ owner = 1
    /\ now = StartTime
    /\ last = Result("startSession", 1, 1, 0, "Ok", 0, NoBoard)

\* Scoring over time, from a started game with account 2 as its one player:
\* the host releases questions of every difficulty, the player answers them
\* right or wrong as the clock runs.
InitScoring ==
    \E qd \in Durations : GameInProgress(2, qd, <<2>>)

NextScoring ==
    \/ \E qi \in {0, 1}, d \in Difficulties, h \in CorrectHashes :
          StartQuestion(1, 1, qi, 1, 0, d, h)
    \/ \E qi \in {0, 1}, h \in AnswerHashes : SubmitAnswer(2, 1, qi, h)
    \/ Tick

SpecScoring == InitScoring /\ [][NextScoring]_vars

\* Ranking, from a started game that accounts 2, 3 and 1 joined in that order:
\* two Easy questions, answered right or wrong in one block, the leaderboard
\* read at any point, the game ended by the host.
InitBoard ==
    GameInProgress(3, 10, <<2, 3, 1>>)

NextBoard ==
    \/ \E qi \in {0, 1}, h \in CorrectHashes : StartQuestion(1, 1, qi, 1, 0, 0, h)
    \/ \E c \in Accounts, qi \in {0, 1}, h \in AnswerHashes : SubmitAnswer(c, 1, qi, h)
    \/ \E c \in {1, 2} : EndSession(c, 1)
    \/ GetLeaderboard(2, 1)

SpecBoard == InitBoard /\ [][NextBoard]_vars

\* One game of two players, from the state after initialize by account 1:
\* account 1 creates a session for two players with 30-second questions,
\* accounts 2 and 3 join, the host starts it and releases question 0 as a Hard
\* question; the clock goes 5 seconds forward once and 26 seconds forward once,
\* so calls are made 0, 5, 26 and 31 seconds into the game; the host ends it.
ScenarioDurations == {30}
ScenarioWaits == {<<5, 5>>, <<26, 31>>}
ScenarioPlayers == {2, 3}

InitScenario ==
    /\ sessions = [s \in SessionIds |-> ZeroSession]
    /\ player_stats = [a \in Accounts |-> ZeroStats]
    /\ next_session_id = 1
    /\ active_sessions_count = 0
    /\ owner = 1
    /\ now = StartTime
    /\ last = Result("initialize", 1, 0, 0, "Ok", 0, NoBoard)

NextScenario ==
    \/ \E qd \in ScenarioDurations : CreateSession(1, 1, 2, qd)
    \/ \E c \in ScenarioPlayers : JoinSession(c, 1, 1, 1)
    \/ StartSession(1, 1)
    \/ \E h \in CorrectHashes : StartQuestion(1, 1, 0, 1, 0, 2, h)
    \/ \E c \in ScenarioPlayers, h \in AnswerHashes : SubmitAnswer(c, 1, 0, h)
    \/ EndSession(1, 1)
    \/ \E w \in ScenarioWaits : Advance(w[1], StartTime + w[2])

SpecScenario == InitScenario /\ [][NextScenario]_vars

\* ---------------------------------------------------------------- claims
Score(s, a) == s.players[a].score

ActivePlayers(s) == {a \in Accounts : s.players[a].is_active}

InList(s, a) == \E i \in 1..Len(s.player_list) : s.player_list[i] = a

\* the join position of an account of the player list
Pos(s, a) == CHOOSE k \in 1..Len(s.player_list) : s.player_list[k] = a

\* C1: in every reachable state every session has player_count = length of
\* player_list = number of accounts with is_active, and no account is twice in
\* player_list.
C1_RosterConsistent ==
    \A sid \in SessionIds :
        LET s == sessions[sid] IN
        /\ s.player_count = Len(s.player_list)
        /\ Len(s.player_list) = Cardinality(ActivePlayers(s))
        /\ \A i, j \in 1..Len(s.player_list) :
              i # j => s.player_list[i] # s.player_list[j]

\* C2: in a Created session, a join with the right room code by an account
\* that has not joined fails with SessionFull at player_count = max_players and
\* succeeds at player_count = max_players - 1; and player_count <= max_players in
\* every session, always.  A joinSession call that returned SessionFull met a
\* full session.
C2_JoinCapacity ==
    /\ \A sid \in SessionIds :
          LET s == sessions[sid] IN
          /\ s.player_count <= s.max_players
          /\ \A c \in Accounts :
                (s.status = STATUS_CREATED /\ ~s.players[c].is_active) =>
                    /\ s.player_count = s.max_players =>
                          JoinSessionErr(s, c, s.room_code) = "SessionFull"
                    /\ s.player_count + 1 = s.max_players =>
                          JoinSessionErr(s, c, s.room_code) = "Ok"
    /\ (last.op = "joinSession" /\ last.err = "SessionFull") =>
          sessions[last.sid].player_count = sessions[last.sid].max_players

\* a join by an account that has not joined was turned away from a full session
C2_Witness ==
    /\ last.op = "joinSession"
    /\ last.err = "SessionFull"
    /\ sessions[last.sid].max_players > 0
    /\ sessions[last.sid].player_count = sessions[last.sid].max_players
    /\ ~sessions[last.sid].players[last.caller].is_active

C4_Expected(correct, responseTime, timeLimit, difficulty, newStreak) ==
    LET baseScore == IF correct THEN 100 ELSE 0
        timeBonus == IF responseTime >= timeLimit THEN 0
                     ELSE ((timeLimit - responseTime) * 50) \div timeLimit
        difficultyMultiplier == CASE difficulty = 0 -> 100
                                  [] difficulty = 1 -> 150
                                  [] difficulty = 2 -> 200
                                  [] OTHER -> 100
        streakBonus == IF correct /\ newStreak >= 2 THEN 10 * newStreak ELSE 0
    IN ((baseScore + timeBonus) * difficultyMultiplier) \div 100 + streakBonus

\* C4: every successful submitAnswer returns, records and adds to the player's
\* score floor((baseScore + timeBonus) * difficultyMultiplier / 100) + streakBonus;
\* the claim's two examples give 150 and 120.
C4_PointsFormula ==
    [][(last'.op = "submitAnswer" /\ last'.err = "Ok") =>
          LET sid == last'.sid
              c == last'.caller
              q == last'.qi
              s == sessions[sid]
              answer == sessions'[sid].answers[q][c]
              correct == answer.answer_hash = s.questions[q].correct_answer_hash
              newStreak == IF correct THEN s.players[c].current_streak + 1 ELSE 0
              expected == C4_Expected(correct, now - s.question_start_time,
                                      s.question_duration,
                                      s.questions[q].difficulty, newStreak)
          IN /\ last'.ret = expected
             /\ answer.points_earned = expected
             /\ Score(sessions'[sid], c) = Score(s, c) + expected
             /\ C4_Expected(TRUE, 0, 10, 0, 1) = 150
             /\ C4_Expected(TRUE, 10, 10, 0, 2) = 120
      ]_vars

\* the claim's second example: after a correct answer worth 150, a correct
\* answer to an Easy question at responseTime = timeLimit = 10 takes the streak
\* to 2 and is worth 120
C4_Witness ==
    LET s == sessions[last.sid] IN
    /\ last.op = "submitAnswer"
    /\ last.err = "Ok"
    /\ last.ret = 120
    /\ s.question_duration = 10
    /\ now - s.question_start_time = 10
    /\ s.questions[last.qi].difficulty = 0
    /\ s.players[last.caller].current_streak = 2
    /\ s.players[last.caller].score = 270

\* w is the winner the claim names for the players and scores of s
C5_IsWinner(s, w) ==
    IF \A i \in 1..Len(s.player_list) : Score(s, s.player_list[i]) = 0
    THEN w = 0
    ELSE \E i \in 1..Len(s.player_list) :
            /\ s.player_list[i] = w
            /\ \A j \in 1..Len(s.player_list) :
                  \/ Score(s, s.player_list[j]) < Score(s, w)
                  \/ Score(s, s.player_list[j]) = Score(s, w) /\ i <= j

\* C5: a successful endSession returns and stores the player with the highest
\* score, the earliest joined of them on a tie, the zero account when nobody
\* scored; total_wins goes up by one for that account and for no other.
C5_WinnerAtClose ==
    [][(last'.op = "endSession" /\ last'.err = "Ok") =>
          LET sid == last'.sid
              s == sessions[sid]
              w == last'.ret
          IN /\ C5_IsWinner(s, w)
             /\ sessions'[sid].winner = w
             /\ \A a \in Accounts :
                   player_stats'[a].total_wins =
                       player_stats[a].total_wins + (IF a = w THEN 1 ELSE 0)
      ]_vars

\* a game ended with two players level at the top: the one that joined first
\* won, although its address is the larger
C5_Witness ==
    LET s == sessions[last.sid] IN
    /\ last.op = "endSession"
    /\ last.err = "Ok"
    /\ \E i, j \in 1..Len(s.player_list) :
          /\ i < j
          /\ Score(s, s.player_list[i]) > 0
          /\ Score(s, s.player_list[i]) = Score(s, s.player_list[j])
          /\ \A k \in 1..Len(s.player_list) :
                Score(s, s.player_list[k]) <= Score(s, s.player_list[i])
          /\ s.player_list[i] > s.player_list[j]
          /\ last.ret = s.player_list[i]
          /\ player_stats[s.player_list[i]].total_wins = 1
          /\ player_stats[s.player_list[j]].total_wins = 0

\* C6: in every reachable state games_played of an account is the number of
\* Completed sessions whose player list holds it.
C6_GamesPlayedCountsCompleted ==
    \A a \in Accounts :
        player_stats[a].games_played =
            Cardinality({sid \in SessionIds :
                            /\ sessions[sid].status = STATUS_COMPLETED
                            /\ InList(sessions[sid], a)})

\* board is what the claim says getLeaderboard returns for session s
C7_IsLeaderboard(board, s) ==
    /\ Len(board) = Cardinality(ActivePlayers(s))
    /\ {board[i][1] : i \in 1..Len(board)} = ActivePlayers(s)
    /\ \A i \in 1..Len(board) : board[i][2] = Score(s, board[i][1])
    /\ \A i, j \in 1..Len(board) :
          i < j =>
              \/ board[i][2] > board[j][2]
              \/ /\ board[i][2] = board[j][2]
                 /\ Pos(s, board[i][1]) < Pos(s, board[j][1])

\* C7: getLeaderboard returns the session's active players, each once, with
\* their current scores, by score descending and by join order among equal
\* scores; the call changes no state.
C7_Leaderboard ==
    [][last'.op = "getLeaderboard" =>
          /\ C7_IsLeaderboard(last'.board, sessions[last'.sid])
          /\ storage' = storage
          /\ now' = now
      ]_vars

\* a leaderboard of three players, the two behind the leader level, the one
\* that joined first ahead although its address is the larger
C7_Witness ==
    /\ last.op = "getLeaderboard"
    /\ Len(last.board) = 3
    /\ last.board[1][2] > last.board[2][2]
    /\ last.board[2][2] = last.board[3][2]
    /\ last.board[2][2] > 0
    /\ last.board[2][1] > last.board[3][1]

\* C8: no step takes a session's status backwards, Completed stays Completed,
\* and Cancelled is never reached.
C8_StatusForwardOnly ==
    [][\A sid \in SessionIds :
          /\ sessions'[sid].status >= sessions[sid].status
          /\ sessions'[sid].status # STATUS_CANCELLED
      ]_vars

HostCalls == {"startSession", "startQuestion", "endSession"}

\* C9: startSession, startQuestion and endSession by an account that is not
\* the session's host fail with Unauthorized, whatever the status, and change
\* nothing; a step that starts a session, releases a question or completes a
\* session is one of these calls, made by the session's host.
C9_HostOnly ==
    [][/\ (last'.op \in HostCalls /\ last'.caller # sessions[last'.sid].host) =>
             /\ last'.err = "Unauthorized"
             /\ storage' = storage
       /\ \A sid \in SessionIds :
             LET s == sessions[sid]
                 t == sessions'[sid]
             IN ( \/ s.status = STATUS_CREATED /\ t.status = STATUS_ACTIVE
                  \/ s.status = STATUS_ACTIVE /\ t.status = STATUS_COMPLETED
                  \/ t.questions # s.questions
                  \/ t.question_start_time # s.question_start_time )
                =>
                ( /\ last'.op \in HostCalls
                  /\ last'.sid = sid
                  /\ last'.err = "Ok"
                  /\ last'.caller = s.host )
      ]_vars

\* an account that is not the host tried to end an Active session
C9_Witness ==
    /\ last.op = "endSession"
    /\ last.err = "Unauthorized"
    /\ last.caller # sessions[last.sid].host
    /\ sessions[last.sid].status = STATUS_ACTIVE
    /\ sessions[last.sid].player_count > 0

\* C10: a call that returns an error leaves the whole storage as it was; the
\* statistics change only in the step that completes a session, and that step
\* counts the game for every player of the session.
C10_ErrorsChangeNothing ==
    [][/\ last'.err # "Ok" => storage' = storage
       /\ player_stats' # player_stats =>
             \E sid \in SessionIds :
                /\ sessions[sid].status = STATUS_ACTIVE
                /\ sessions'[sid].status = STATUS_COMPLETED
       /\ \A sid \in SessionIds :
             (sessions[sid].status = STATUS_ACTIVE
                /\ sessions'[sid].status = STATUS_COMPLETED) =>
                /\ last'.op = "endSession" /\ last'.err = "Ok"
                /\ active_sessions_count >= 1
                /\ \A a \in Accounts :
                      player_stats'[a].games_played =
                          player_stats[a].games_played
                              + (IF InList(sessions[sid], a) THEN 1 ELSE 0)
      ]_vars

\* the host tried to end a session that was already Completed and had players
C10_Witness ==
    /\ last.op = "endSession"
    /\ last.err = "SessionNotActive"
    /\ last.caller = sessions[last.sid].host
    /\ sessions[last.sid].status = STATUS_COMPLETED
    /\ sessions[last.sid].player_count > 0

\* C11: a successful createSession returns an identifier greater than every
\* identifier handed out before, so it never writes over the host, status, room
\* code or player_count of a session that already exists.
C11_IdsNeverReused ==
    [][(last'.op = "createSession" /\ last'.err = "Ok") =>
          \A sid \in SessionIds :
             sessions[sid].host # 0 =>
                /\ last'.ret > sid
                /\ sessions'[sid].host = sessions[sid].host
                /\ sessions'[sid].status = sessions[sid].status
                /\ sessions'[sid].room_code = sessions[sid].room_code
                /\ sessions'[sid].player_count = sessions[sid].player_count
      ]_vars

\* the highest score among the accounts of the player list, 0 for an empty list
C12_TopScore(s) ==
    IF s.player_list = <<>> THEN 0
    ELSE CHOOSE m \in {Score(s, s.player_list[i]) : i \in 1..Len(s.player_list)} :
            \A i \in 1..Len(s.player_list) : Score(s, s.player_list[i]) <= m

\* C12: in every Active session in which some player has scored, the recorded
\* winner (the winner field getSessionInfo reads) is a player holding the
\* highest score.
C12_WinnerTracksLeader ==
    \A sid \in SessionIds :
       LET s == sessions[sid] IN
       (s.status = STATUS_ACTIVE /\ C12_TopScore(s) > 0) =>
          /\ InList(s, s.winner)
          /\ Score(s, s.winner) = C12_TopScore(s)

\* C13: joinSession on an identifier that no createSession has returned (the
\* session has no host) fails with SessionNotFound.
C13_UnknownIdNotFound ==
    (last.op = "joinSession" /\ sessions[last.sid].host = 0) =>
        last.err = "SessionNotFound"

\* the points of an answer that earns no time bonus
C14_PointsWithoutBonus(correct, difficulty, newStreak) ==
    ((IF correct THEN 100 ELSE 0)
        * (IF difficulty = 1 THEN 150 ELSE IF difficulty = 2 THEN 200 ELSE 100))
            \div 100
    + (IF correct /\ newStreak >= 2 THEN 10 * newStreak ELSE 0)

\* C14: when the session is Active, the question is the current one, the caller
\* is an active player and has not answered, submitAnswer fails with
\* QuestionNotActive exactly when now > questionStartTime + timeLimit and
\* succeeds otherwise; at now = questionStartTime + timeLimit the answer earns
\* no time bonus; every Answer is recorded with a submit_time within the window.
C14_HardExpiry ==
    [][last'.op = "submitAnswer" =>
          LET sid == last'.sid
              c == last'.caller
              q == last'.qi
              s == sessions[sid]
              answer == sessions'[sid].answers[q][c]
              deadline == s.question_start_time + s.question_duration
              earlierChecksPass ==
                  /\ s.status = STATUS_ACTIVE
                  /\ s.current_question_index = q
                  /\ s.players[c].is_active
                  /\ s.answers[q][c].submit_time = 0
              correct == answer.answer_hash = s.questions[q].correct_answer_hash
              newStreak == IF correct THEN s.players[c].current_streak + 1 ELSE 0
          IN /\ earlierChecksPass =>
                   /\ last'.err = "QuestionNotActive" <=> now > deadline
                   /\ last'.err = "Ok" <=> now <= deadline
             /\ (earlierChecksPass /\ now = deadline) =>
                   last'.ret = C14_PointsWithoutBonus(correct,
                                   s.questions[q].difficulty, newStreak)
             /\ last'.err = "Ok" =>
                   /\ answer.submit_time = now
                   /\ answer.submit_time <= deadline
             /\ last'.err # "Ok" => sessions'[sid].answers = s.answers
      ]_vars

\* a correct answer to a Hard question of duration 10 given in the last second
\* of its window was accepted and earned the 200 points of the answer alone
C14_Witness ==
    LET s == sessions[last.sid] IN
    /\ last.op = "submitAnswer"
    /\ last.err = "Ok"
    /\ s.question_duration = 10
    /\ s.questions[last.qi].question_hash # 0
    /\ s.questions[last.qi].difficulty = 2
    /\ s.answers[last.qi][last.caller].submit_time = s.question_start_time + 10
    /\ s.answers[last.qi][last.caller].is_correct
    /\ s.players[last.caller].current_streak = 1
    /\ last.ret = 200

\* session s is the scenario's game: two seats, 30-second questions, players a
\* and b joined, started, question 0 released as a Hard question
C15_Game(s, a, b) ==
    /\ s.max_players = 2
    /\ s.question_duration = 30
    /\ s.status = STATUS_ACTIVE
    /\ InList(s, a) /\ InList(s, b) /\ s.player_count = 2
    /\ s.current_question_index = 0
    /\ s.questions[0].question_hash # 0
    /\ s.questions[0].difficulty = 2

\* C15: in a two-player game with 30-second questions whose Hard question 0 was
\* released at time t, A's first answer at t+5, if correct, earns 282 points;
\* B's answer at t+31 fails with QuestionNotActive and changes nothing;
\* endSession with A on 282 and B on 0 returns A and takes A's totalWins from 0
\* to 1.
C15_Scenario ==
    [][\A a, b \in Accounts :
         LET sid == last'.sid
             s == sessions[sid]
             t == s.question_start_time
         IN (a # b /\ C15_Game(s, a, b)) =>
            /\ (/\ last'.op = "submitAnswer" /\ last'.caller = a /\ last'.qi = 0
                /\ s.answers[0][a].submit_time = 0
                /\ s.players[a].current_streak = 0
                /\ now = t + 5) =>
                   /\ last'.err = "Ok"
                   /\ sessions'[sid].answers[0][a].answer_hash
                          = s.questions[0].correct_answer_hash =>
                         /\ ((100 + ((25 * 50) \div 30)) * 200) \div 100 = 282
                         /\ last'.ret = 282
                         /\ Score(sessions'[sid], a) = Score(s, a) + 282
            /\ (/\ last'.op = "submitAnswer" /\ last'.caller = b /\ last'.qi = 0
                /\ s.answers[0][b].submit_time = 0
                /\ now = t + 31) =>
                   /\ last'.err = "QuestionNotActive"
                   /\ storage' = storage
            /\ (/\ last'.op = "endSession" /\ last'.caller = s.host
                /\ Score(s, a) = 282 /\ Score(s, b) = 0
                /\ player_stats[a].total_wins = 0) =>
                   /\ last'.err = "Ok"
                   /\ last'.ret = a
                   /\ sessions'[sid].winner = a
                   /\ player_stats'[a].total_wins = 1
      ]_vars

\* the scenario has run to its end: the game was ended 31 seconds after the
\* release of question 0, account 2 had answered at t+5 for 282 points, account
\* 3 has no answer on record, account 2 is the winner with one win
C15_Witness ==
    LET s == sessions[last.sid] IN
    /\ last.op = "endSession"
    /\ last.err = "Ok"
    /\ last.ret = 2
    /\ s.player_list = <<2, 3>>
    /\ s.question_duration = 30
    /\ s.questions[0].difficulty = 2
    /\ now = s.question_start_time + 31
    /\ s.answers[0][2].submit_time = s.question_start_time + 5
    /\ s.answers[0][2].points_earned = 282
    /\ s.answers[0][3].submit_time = 0
    /\ Score(s, 2) = 282
    /\ Score(s, 3) = 0
    /\ s.winner = 2
    /\ player_stats[2].total_wins = 1

\* the larger of two numbers
C16_Max(x, y) == IF x >= y THEN x ELSE y

\* C16: a successful submitAnswer sets the streak to priorStreak + 1 if the
\* answer is correct and to 0 otherwise, bestStreak to max(bestStreak,
\* newStreak), adds 1 to correct_answers only when correct and adds the
\* response time to total_response_time in both cases; in every state
\* bestStreak >= currentStreak and correct_answers >= bestStreak; no step
\* lowers a player's score.
C16_StreakBookkeeping ==
    [][/\ (last'.op = "submitAnswer" /\ last'.err = "Ok") =>
             LET sid == last'.sid
                 c == last'.caller
                 q == last'.qi
                 s == sessions[sid]
                 p == s.players[c]
                 np == sessions'[sid].players[c]
                 correct == sessions'[sid].answers[q][c].answer_hash
                                = s.questions[q].correct_answer_hash
                 newStreak == IF correct THEN p.current_streak + 1 ELSE 0
             IN /\ np.current_streak = newStreak
                /\ np.best_streak = C16_Max(p.best_streak, newStreak)
                /\ np.correct_answers = p.correct_answers + (IF correct THEN 1 ELSE 0)
                /\ np.total_response_time
                       = p.total_response_time + (now - s.question_start_time)
                /\ sessions'[sid].answers[q][c].is_correct = correct
       /\ \A sid \in SessionIds, a \in Accounts :
             LET p == sessions[sid].players[a]
                 np == sessions'[sid].players[a]
             IN /\ p.best_streak >= p.current_streak
                /\ p.correct_answers >= p.best_streak
                /\ np.best_streak >= np.current_streak
                /\ np.correct_answers >= np.best_streak
                /\ np.score >= p.score
      ]_vars

\* a wrong answer, given some seconds after the release, followed a correct
\* one: the streak is back to 0, the best streak and the correct answers stay 1
C16_Witness ==
    LET p == sessions[last.sid].players[last.caller] IN
    /\ last.op = "submitAnswer"
    /\ last.err = "Ok"
    /\ ~sessions[last.sid].answers[last.qi][last.caller].is_correct
    /\ p.current_streak = 0
    /\ p.best_streak = 1
    /\ p.correct_answers = 1
    /\ p.total_response_time >= 5
    /\ p.score > 0

\* no field of the statistics t is below that of the statistics st
C17_NoFieldLower(st, t) ==
    /\ t.games_played >= st.games_played
    /\ t.total_wins >= st.total_wins
    /\ t.total_score >= st.total_score
    /\ t.best_score >= st.best_score
    /\ t.total_correct_answers >= st.total_correct_answers
    /\ t.longest_streak >= st.longest_streak

\* C17: only a successful endSession changes any PlayerStats, it changes only
\* the statistics of accounts in the player list of the session it closes, and
\* no field of any PlayerStats ever decreases.
C17_StatsOnlyAtClose ==
    [][/\ ~(last'.op = "endSession" /\ last'.err = "Ok") =>
             player_stats' = player_stats
       /\ (last'.op = "endSession" /\ last'.err = "Ok") =>
             \A a \in Accounts :
                player_stats'[a] # player_stats[a] => InList(sessions[last'.sid], a)
       /\ \A a \in Accounts : C17_NoFieldLower(player_stats[a], player_stats'[a])
      ]_vars

\* a game was ended in which account 2 had played and scored and account 1 had
\* not played: only account 2 has statistics
C17_Witness ==
    LET s == sessions[last.sid] IN
    /\ last.op = "endSession"
    /\ last.err = "Ok"
    /\ s.player_list = <<2>>
    /\ Score(s, 2) > 0
    /\ player_stats[2].games_played = 1
    /\ player_stats[2].total_score = Score(s, 2)
    /\ player_stats[2].best_score = Score(s, 2)
    /\ player_stats[2].total_correct_answers = 1
    /\ player_stats[2].longest_streak = 1
    /\ player_stats[1] = ZeroStats

\* C18: joinSession on an Active or Completed session fails (with
\* SessionAlreadyActive when the room code matches), and the player_list and
\* player_count of a session that has been started never change again.
C18_RosterFrozen ==
    [][\A sid \in SessionIds :
          sessions[sid].status \in {STATUS_ACTIVE, STATUS_COMPLETED} =>
             /\ (last'.op = "joinSession" /\ last'.sid = sid) =>
                   last'.err \in {"InvalidRoomCode", "SessionAlreadyActive"}
             /\ sessions'[sid].player_list = sessions[sid].player_list
             /\ sessions'[sid].player_count = sessions[sid].player_count
      ]_vars

\* C19: an Answer is on record only for a question that startQuestion has
\* released in that session (a released question has its question_hash stored).
C19_AnswersOnlyForReleased ==
    \A sid \in SessionIds, q \in QuestionIdx, a \in Accounts :
       sessions[sid].answers[q][a].submit_time # 0 =>
          sessions[sid].questions[q].question_hash # 0

\* C20: no submitAnswer call fails on a division by zero; in a session created
\* with questionDuration = 0 a call either fails one of the checks or succeeds
\* with no time bonus.
C20_NoDivisionByZero ==
    [][last'.op = "submitAnswer" =>
          LET sid == last'.sid
              c == last'.caller
              q == last'.qi
              s == sessions[sid]
              answer == sessions'[sid].answers[q][c]
              correct == answer.answer_hash = s.questions[q].correct_answer_hash
              newStreak == IF correct THEN s.players[c].current_streak + 1 ELSE 0
          IN /\ last'.err # "Panic"
             /\ (s.question_duration = 0 /\ last'.err = "Ok") =>
                   /\ now = s.question_start_time
                   /\ last'.ret = C14_PointsWithoutBonus(correct,
                                      s.questions[q].difficulty, newStreak)
                   /\ answer.points_earned = last'.ret
             /\ (s.question_duration = 0 /\ now > s.question_start_time) =>
                   last'.err \in {"SessionNotActive", "InvalidQuestionIndex",
                                  "PlayerNotInSession", "AlreadyAnswered",
                                  "QuestionNotActive"}
      ]_vars

\* in a session with questionDuration = 0 a correct answer to a released Medium
\* question, given in the block of its release, was accepted for 150 points
C20_Witness ==
    LET s == sessions[last.sid] IN
    /\ last.op = "submitAnswer"
    /\ last.err = "Ok"
    /\ s.question_duration = 0
    /\ s.questions[last.qi].question_hash # 0
    /\ s.questions[last.qi].time_limit = 0
    /\ s.questions[last.qi].difficulty = 1
    /\ s.answers[last.qi][last.caller].is_correct
    /\ s.answers[last.qi][last.caller].submit_time = s.question_start_time
    /\ last.ret = 150

====
